---- MODULE Spec2Model ----
(***************************************************************************)
(* Model of the Juvix hint processor of juvix-cairo-vm: the Alloc, Input   *)
(* and RandomEcPoint hints, the allocation cursor kept in the execution    *)
(* scopes, the recursive encoder that lays a program-input Value out in    *)
(* the segmented memory of the Cairo VM, the parser of the hint texts and  *)
(* the decoder of the program input from JSON.                             *)
(***************************************************************************)
EXTENDS Integers, Sequences, FiniteSets, TLC

(***************************************************************************)
(* Bounds of the model.                                                    *)
(***************************************************************************)
\* width of usize in the model (64 in the program)
UsizeBits == 6
\* longest record / list of the outer level of a Value
MaxLen == 2
\* longest record / list nested inside another one
MaxInnerLen == 1
\* largest offset at which the encoder is started
MaxBase == 1
\* largest offset of ap in the execution segment
MaxAp == 2
\* number of hints executed in one run
MaxHints == 3
\* longest name of an Input hint text
MaxNameLen == 2
\* longest hint text, in tokens
MaxPieces == 5

UsizeModulus == 2 ^ UsizeBits
UsizeMax == UsizeModulus - 1

(***************************************************************************)
(* Value (program_input.rs): a tagged union, here a tagged tuple.          *)
(* A record's fields are the ordered (name, value) pairs of its IndexMap.  *)
(***************************************************************************)
ValueFelt(v) == <<"ValueFelt", v>>
ValueBool(b) == <<"ValueBool", b>>
ValueRecord(fields) == <<"ValueRecord", fields>>
ValueList(elems) == <<"ValueList", elems>>

IsScalar(val) == val[1] \in {"ValueFelt", "ValueBool"}

(***************************************************************************)
(* Relocatable addresses <<segment_index, offset>> and memory cells.       *)
(* A cell holds a MaybeRelocatable: an integer or an address.              *)
(***************************************************************************)
Relocatable(seg, off) == <<seg, off>>
IntValue(n) == <<"Int", 0, n>>
RelocatableValue(addr) == <<"RelocatableValue", addr[1], addr[2]>>

\* Relocatable + usize: checked, MathError when the offset overflows
AddUsize(addr, n) ==
    IF addr[2] + n > UsizeMax
    THEN [ok |-> FALSE, ret |-> addr]
    ELSE [ok |-> TRUE, ret |-> Relocatable(addr[1], addr[2] + n)]

\* Relocatable - Relocatable: checked, MathError on another segment or a
\* negative distance
SubRelocatable(a, b) ==
    IF a[1] # b[1] \/ a[2] < b[2]
    THEN [ok |-> FALSE, ret |-> 0]
    ELSE [ok |-> TRUE, ret |-> a[2] - b[2]]

(***************************************************************************)
(* The host VM as the hint processor sees it: the memory (a function from  *)
(* the written cells to their values), the number of segments, the list of *)
(* the writes performed, in order, and the write the host refused, if any, *)
(* with the number of writes performed before it.                          *)
(***************************************************************************)
NewVm(memory, num_segments) ==
    [memory |-> memory, num_segments |-> num_segments, trace |-> << >>,
     failed |-> << >>]

\* the MemoryError of a refused write of v at addr
MemoryError(vm, addr, v) ==
    [kind |-> "Err", ret |-> 0,
     vm |-> [vm EXCEPT !.failed = <<addr, v, Len(vm.trace)>>]]

\* vm.add_memory_segment(): a new empty segment, its base address
add_memory_segment(vm) ==
    [vm |-> [vm EXCEPT !.num_segments = @ + 1],
     addr |-> Relocatable(vm.num_segments, 0)]

(***************************************************************************)
(* Results: kind is "Ok", "Err" (a HintError returned) or "Panic" (an      *)
(* overflow of unchecked usize arithmetic in a build with overflow checks, *)
(* or an index out of a map); vm is the VM as the call left it; ret is the *)
(* value returned.                                                         *)
(***************************************************************************)
Ok(vm, ret) == [kind |-> "Ok", vm |-> vm, ret |-> ret]
Err(vm) == [kind |-> "Err", vm |-> vm, ret |-> 0]
Panic(vm) == [kind |-> "Panic", vm |-> vm, ret |-> 0]

\* r?: the rest F of the function runs on an Ok, anything else is returned
Try(r, F(_)) == IF r.kind # "Ok" THEN r ELSE F(r)

\* (a + n)? and (a - b)? of addresses: the rest F runs on the result
TryMath(vm, a, F(_)) == IF ~a.ok THEN Err(vm) ELSE F(a.ret)

\* vm.insert_value(addr, v): fails on a segment that does not exist and on a
\* cell that already holds another value; writing the same value again is
\* accepted
insert_value(vm, addr, v) ==
    IF addr[1] >= vm.num_segments
    THEN MemoryError(vm, addr, v)
    ELSE IF addr \in DOMAIN vm.memory
    THEN IF vm.memory[addr] = v
         THEN Ok([vm EXCEPT !.trace = Append(@, <<addr, v>>)], 0)
         ELSE MemoryError(vm, addr, v)
    ELSE Ok([vm EXCEPT !.memory = @ @@ (addr :> v),
                       !.trace = Append(@, <<addr, v>>)], 0)

\* usize + usize, unchecked: panics with overflow checks, wraps without
UncheckedAdd(checks, vm, a, b) ==
    IF a + b > UsizeMax
    THEN IF checks THEN Panic(vm) ELSE Ok(vm, (a + b) % UsizeModulus)
    ELSE Ok(vm, a + b)

\* mutation: the natural order, 1 for true
BoolEncoding_natural(v) == IF v THEN 1 ELSE 0

\* if v { 0 } else { 1 }
BoolEncoding(v) == IF v THEN 0 ELSE 1

read_felt_input(vm, addr, v) ==
    Try(insert_value(vm, addr, IntValue(v)), LAMBDA w : Ok(w.vm, 1))

\* mutation: true is written as 1
read_bool_input_natural(vm, addr, v) ==
    Try(insert_value(vm, addr, IntValue(IF v THEN 1 ELSE 0)),
        LAMBDA w : Ok(w.vm, 1))

read_bool_input(vm, addr, v) ==
    Try(insert_value(vm, addr, IntValue(BoolEncoding(v))),
        LAMBDA w : Ok(w.vm, 1))

\* the free address after the header block of a record of n fields
RecordFreeAddress(addr, n) == AddUsize(addr, n)

\* mutation: a cons cell of two cells
ConsNextAddress_short(addr1) == AddUsize(addr1, 2)

\* the address of the cons cell after the one at addr1
ConsNextAddress(addr1) == AddUsize(addr1, 3)

\* addr2 += n on a Relocatable: unchecked addition on the offset
AddAssign(checks, vm, addr2, n) ==
    Try(UncheckedAdd(checks, vm, addr2[2], n),
        LAMBDA s : Ok(vm, Relocatable(addr2[1], s.ret)))

RECURSIVE read_value_input(_, _, _, _)
RECURSIVE read_record_input(_, _, _, _)
RECURSIVE RecordFields(_, _, _, _, _, _)
RECURSIVE read_list_input(_, _, _, _)
RECURSIVE ListElems(_, _, _, _, _, _)
RECURSIVE read_pointer_value_input(_, _, _, _, _)

read_value_input(checks, vm, addr, val) ==
    CASE val[1] = "ValueFelt" -> read_felt_input(vm, addr, val[2])
      [] val[1] = "ValueBool" -> read_bool_input(vm, addr, val[2])
      [] val[1] = "ValueRecord" -> read_record_input(checks, vm, addr, val[2])
      [] val[1] = "ValueList" -> read_list_input(checks, vm, addr, val[2])

\* the loop of read_record_input from the field i (1-based) on, and the
\* return; addr1 is the free address
RecordFields(checks, vm, addr, addr1, fields, i) ==
    IF i > Len(fields)
    THEN TryMath(vm, SubRelocatable(addr1, addr), LAMBDA n : Ok(vm, n))
    ELSE TryMath(vm, AddUsize(addr, i), LAMBDA addr0 :
         Try(read_pointer_value_input(checks, vm, addr0, addr1, fields[i][2]),
             LAMBDA r :
         RecordFields(checks, r.vm, addr, r.ret, fields, i + 1)))

read_record_input(checks, vm, addr, fields) ==
    Try(insert_value(vm, addr, IntValue(0)), LAMBDA h :
    TryMath(h.vm, RecordFreeAddress(addr, Len(fields)), LAMBDA addr1 :
    RecordFields(checks, h.vm, addr, addr1, fields, 1)))

\* the loop of read_list_input from the element i (1-based) on, then the nil
\* cell and the return; addr1 is the address of the next cons cell
ListElems(checks, vm, addr, addr1, elems, i) ==
    IF i > Len(elems)
    THEN Try(insert_value(vm, addr1, IntValue(0)), LAMBDA z :
         TryMath(z.vm, SubRelocatable(addr1, addr), LAMBDA n :
         UncheckedAdd(checks, z.vm, n, 1)))
    ELSE TryMath(vm, ConsNextAddress(addr1), LAMBDA addr2 :
         Try(insert_value(vm, addr1, IntValue(1)), LAMBDA h :
         TryMath(h.vm, AddUsize(addr1, 1), LAMBDA c1 :
         Try(read_pointer_value_input(checks, h.vm, c1, addr2, elems[i]),
             LAMBDA r :
         TryMath(r.vm, AddUsize(addr1, 2), LAMBDA c2 :
         Try(insert_value(r.vm, c2, RelocatableValue(r.ret)), LAMBDA n :
         ListElems(checks, n.vm, addr, r.ret, elems, i + 1)))))))

read_list_input(checks, vm, addr, elems) ==
    ListElems(checks, vm, addr, addr, elems, 1)

read_pointer_value_input(checks, vm, addr1, addr2, val) ==
    CASE val[1] = "ValueRecord" ->
            Try(insert_value(vm, addr1, RelocatableValue(addr2)), LAMBDA p :
            Try(read_record_input(checks, p.vm, addr2, val[2]), LAMBDA r :
            AddAssign(checks, r.vm, addr2, r.ret)))
      [] val[1] = "ValueList" ->
            Try(insert_value(vm, addr1, RelocatableValue(addr2)), LAMBDA p :
            Try(read_list_input(checks, p.vm, addr2, val[2]), LAMBDA r :
            AddAssign(checks, r.vm, addr2, r.ret)))
      [] OTHER ->
            Try(read_value_input(checks, vm, addr1, val), LAMBDA r :
            Ok(r.vm, addr2))

(***************************************************************************)
(* The hints (hint.rs) and their execution (hint_processor.rs).            *)
(***************************************************************************)
Alloc(size) == <<"Alloc", size>>
Input(var) == <<"Input", var>>
RandomEcPoint == <<"RandomEcPoint">>

\* outcome of a hint: the result r with the execution scope as the hint
\* left it
HintResult(r, scope) == [kind |-> r.kind, vm |-> r.vm, scope |-> scope]

\* mutation: the cursor is not advanced
AdvanceCursor_unadvanced(checks, vm, next_address, size) ==
    Ok(vm, next_address)

\* memory_exec_scope.next_address.offset += size, unchecked
AdvanceCursor(checks, vm, next_address, size) ==
    AddAssign(checks, vm, next_address, size)

\* the outcome of alloc_constant_size: r.ret is the advanced cursor, found
\* the cursor that the hint found or made
AllocResult(r, found) ==
    [kind |-> r.kind, vm |-> r.vm,
     scope |-> IF r.kind = "Ok" THEN <<r.ret>> ELSE <<found>>]

\* lines 93-96 of alloc_constant_size: the write of the cursor at ap and its
\* advance, seg being the VM and the cursor after lines 79-91
AllocWrite(checks, seg, ap, size) ==
    AllocResult(
        Try(insert_value(seg.vm, ap, RelocatableValue(seg.addr)), LAMBDA w :
        Try(AdvanceCursor(checks, w.vm, seg.addr, size), LAMBDA a :
        Ok(w.vm, a.ret))),
        seg.addr)

\* mutation: every Alloc requests a segment and restarts the cursor
alloc_constant_size_fresh(checks, vm, scope, ap, size) ==
    AllocWrite(checks, add_memory_segment(vm), ap, size)

\* scope is << >> while exec_scopes has no "memory_exec_scope", else
\* <<next_address>>
alloc_constant_size(checks, vm, scope, ap, size) ==
    AllocWrite(checks,
               IF scope = << >> THEN add_memory_segment(vm)
               ELSE [vm |-> vm, addr |-> scope[1]],
               ap, size)

\* ProgramInput::get: indexing the HashMap panics on an absent name
HasInput(input_values, var) == var \in DOMAIN input_values

\* mutation: the body of a record or list goes one cell into the segment
ReadInputValue_shifted(checks, vm, ap, val) ==
    IF IsScalar(val)
    THEN read_value_input(checks, vm, ap, val)
    ELSE LET seg == add_memory_segment(vm)
         IN  Try(insert_value(seg.vm, ap, RelocatableValue(seg.addr)),
                 LAMBDA w :
             read_value_input(checks, w.vm, Relocatable(seg.addr[1], 1), val))

\* lines 101-109 of read_program_input: a scalar goes to ap, a record or
\* list to a new segment, pointed to from ap
ReadInputValue(checks, vm, ap, val) ==
    IF IsScalar(val)
    THEN read_value_input(checks, vm, ap, val)
    ELSE LET seg == add_memory_segment(vm)
         IN  Try(insert_value(seg.vm, ap, RelocatableValue(seg.addr)),
                 LAMBDA w :
             read_value_input(checks, w.vm, seg.addr, val))

\* mutation: the Input hint drops the allocation cursor
read_program_input_dropscope(checks, vm, scope, ap, input_values, var) ==
    IF ~HasInput(input_values, var) THEN HintResult(Panic(vm), << >>)
    ELSE HintResult(ReadInputValue(checks, vm, ap, input_values[var]), << >>)

\* mutation: an absent name reads as the field element 0
read_program_input_default(checks, vm, scope, ap, input_values, var) ==
    HintResult(ReadInputValue(checks, vm, ap,
                              IF HasInput(input_values, var)
                              THEN input_values[var] ELSE ValueFelt(0)),
               scope)

read_program_input(checks, vm, scope, ap, input_values, var) ==
    IF ~HasInput(input_values, var) THEN HintResult(Panic(vm), scope)
    ELSE HintResult(ReadInputValue(checks, vm, ap, input_values[var]), scope)

(***************************************************************************)
(* The curve y^2 = x^3 + x + beta over the prime field (scaled down).      *)
(***************************************************************************)
FieldModulus == 7
Beta == 3
Fq == 0 .. (FieldModulus - 1)

RECURSIVE PowMod(_, _)
PowMod(b, e) == IF e = 0 THEN 1 ELSE (b * PowMod(b, e - 1)) % FieldModulus

\* mutation: the linear term is left out
CurveRhs_nolinear(x) == (x * x * x + Beta) % FieldModulus

\* random_x * random_x * random_x + random_x + beta
CurveRhs(x) == (x * x * x + x + Beta) % FieldModulus

\* legendre().is_qr(): Euler's criterion gives 1 for a nonzero square
IsQr(r) == PowMod(r, (FieldModulus - 1) \div 2) = 1

\* sqrt(): a square root when there is one
SqrtSet(r) == {y \in Fq : (y * y) % FieldModulus = r}

\* mutation: the result of the write of x is dropped
random_ec_point_swallow(vm, scope, ap, x, y) ==
    HintResult(
        IF y = -1 THEN Err(vm)
        ELSE TryMath(vm, AddUsize(ap, 1), LAMBDA ap1 :
             insert_value(insert_value(vm, ap, IntValue(x)).vm, ap1,
                          IntValue(y))),
        scope)

\* x is a draw the loop accepts, y the square root returned (y = -1 when
\* sqrt() returns None)
random_ec_point(vm, scope, ap, x, y) ==
    HintResult(
        IF y = -1 THEN Err(vm)
        ELSE Try(insert_value(vm, ap, IntValue(x)), LAMBDA wx :
             TryMath(wx.vm, AddUsize(ap, 1), LAMBDA ap1 :
             insert_value(wx.vm, ap1, IntValue(y)))),
        scope)

\* JuvixHintProcessor::execute; arg is the draw of the sampler
execute(checks, vm, scope, ap, input_values, hint, arg) ==
    CASE hint[1] = "Alloc" ->
            alloc_constant_size(checks, vm, scope, ap, hint[2])
      [] hint[1] = "Input" ->
            read_program_input(checks, vm, scope, ap, input_values, hint[2])
      [] hint[1] = "RandomEcPoint" ->
            random_ec_point(vm, scope, ap, arg[1], arg[2])

(***************************************************************************)
(* The hint parser (hint_parser.rs), built from nom's combinators. A       *)
(* parser takes the text left to read and returns Ok with the rest of the  *)
(* text and its output, or the Error of nom with its ErrorKind.            *)
(***************************************************************************)
POk(rest, out) == [ok |-> TRUE, rest |-> rest, out |-> out, code |-> ""]
PErr(input, code) == [ok |-> FALSE, rest |-> input, out |-> "", code |-> code]

\* a sequence of parsers (tuple, preceded, delimited): the rest F runs on an
\* Ok, an Error is returned
PThen(r, F(_)) == IF ~r.ok THEN r ELSE F(r)

CharAt(s, i) == SubSeq(s, i, i)
Drop(s, k) == SubSeq(s, k + 1, Len(s))

Letters == "abcdefghijklmnopqrstuvwxyzABCDEFGHIJKLMNOPQRSTUVWXYZ"
DigitChars == "0123456789"

\* is_alphabetic, is_dec_digit and the whitespace of multispace0
Alpha == {CharAt(Letters, i) : i \in 1 .. Len(Letters)}
Digit == {CharAt(DigitChars, i) : i \in 1 .. Len(DigitChars)}
Multispace == {" ", "\t", "\r", "\n"}

\* to_digit(10)
DigitValue(c) == CHOOSE d \in 0 .. 9 : CharAt(DigitChars, d + 1) = c

RECURSIVE SpanLen(_, _, _)
\* the number of characters of S that s holds from the position i on, plus
\* i - 1
SpanLen(s, S, i) ==
    IF i <= Len(s) /\ CharAt(s, i) \in S THEN SpanLen(s, S, i + 1) ELSE i - 1

\* the parser that takes the longest run of characters of S, at least
\* least of them
TakeWhile(S, least, code, input) ==
    IF SpanLen(input, S, 1) < least THEN PErr(input, code)
    ELSE POk(Drop(input, SpanLen(input, S, 1)),
             SubSeq(input, 1, SpanLen(input, S, 1)))

multispace0(input) == TakeWhile(Multispace, 0, "MultiSpace", input)
alpha1(input) == TakeWhile(Alpha, 1, "Alpha", input)
alphanumeric1(input) == TakeWhile(Alpha \cup Digit, 1, "AlphaNumeric", input)

tag(t, input) ==
    IF Len(input) >= Len(t) /\ SubSeq(input, 1, Len(t)) = t
    THEN POk(Drop(input, Len(t)), t)
    ELSE PErr(input, "Tag")

char(c, input) ==
    IF Len(input) >= 1 /\ CharAt(input, 1) = c
    THEN POk(Drop(input, 1), c)
    ELSE PErr(input, "Char")

\* alt: the second parser runs on the Error of the first, and its Error is
\* the one returned
alt(r1, r2) == IF r1.ok THEN r1 ELSE r2

\* the largest u64 (the model gives u64 the width of usize: a 64-bit target)
U64Max == UsizeMax

RECURSIVE U64Digits(_, _, _)
\* the loop of nom's u64 from the position pos on: value * 10 + digit,
\* checked
U64Digits(input, pos, value) ==
    IF pos > Len(input) \/ CharAt(input, pos) \notin Digit
    THEN IF pos = 1 THEN PErr(input, "Digit")
         ELSE POk(Drop(input, pos - 1), value)
    ELSE IF value * 10 + DigitValue(CharAt(input, pos)) > U64Max
    THEN PErr(input, "Digit")
    ELSE U64Digits(input, pos + 1,
                   value * 10 + DigitValue(CharAt(input, pos)))

parse_u64(input) == U64Digits(input, 1, 0)

\* map(parse_u64, |num| num as usize)
parse_usize(input) ==
    PThen(parse_u64(input), LAMBDA n : POk(n.rest, n.out % UsizeModulus))

\* mutation: an identifier may start with a digit
parse_identifier_anystart(input) ==
    PThen(alt(alphanumeric1(input), tag("_", input)), LAMBDA a :
    PThen(TakeWhile(Alpha \cup Digit \cup {"_"}, 0, "Many0", a.rest),
          LAMBDA m :
    POk(m.rest, SubSeq(input, 1, Len(input) - Len(m.rest)))))

\* recognize(pair(alt((alpha1, tag("_"))),
\*                many0(alt((alphanumeric1, tag("_"))))))
parse_identifier(input) ==
    PThen(alt(alpha1(input), tag("_", input)), LAMBDA a :
    PThen(TakeWhile(Alpha \cup Digit \cup {"_"}, 0, "Many0", a.rest),
          LAMBDA m :
    POk(m.rest, SubSeq(input, 1, Len(input) - Len(m.rest)))))

parse_input(input) ==
    PThen(tag("Input", input), LAMBDA t :
    PThen(multispace0(t.rest), LAMBDA w1 :
    PThen(char("(", w1.rest), LAMBDA o :
    PThen(multispace0(o.rest), LAMBDA w2 :
    PThen(multispace0(w2.rest), LAMBDA w3 :
    PThen(parse_identifier(w3.rest), LAMBDA id :
    PThen(multispace0(id.rest), LAMBDA w4 :
    PThen(char(")", w4.rest), LAMBDA c :
    POk(c.rest, Input(id.out))))))))))

\* mutation: no whitespace is skipped before the closing parenthesis
parse_alloc_tight(input) ==
    PThen(tag("Alloc", input), LAMBDA t :
    PThen(multispace0(t.rest), LAMBDA w1 :
    PThen(char("(", w1.rest), LAMBDA o :
    PThen(multispace0(o.rest), LAMBDA w2 :
    PThen(parse_usize(w2.rest), LAMBDA n :
    PThen(char(")", n.rest), LAMBDA c :
    POk(c.rest, Alloc(n.out))))))))

parse_alloc(input) ==
    PThen(tag("Alloc", input), LAMBDA t :
    PThen(multispace0(t.rest), LAMBDA w1 :
    PThen(char("(", w1.rest), LAMBDA o :
    PThen(multispace0(o.rest), LAMBDA w2 :
    PThen(parse_usize(w2.rest), LAMBDA n :
    PThen(multispace0(n.rest), LAMBDA w3 :
    PThen(char(")", w3.rest), LAMBDA c :
    POk(c.rest, Alloc(n.out)))))))))

\* mutation: without all_consuming, the text after the hint is ignored
parse_hint_partial(input) ==
    PThen(multispace0(input), LAMBDA w1 :
    PThen(alt(parse_input(w1.rest), parse_alloc(w1.rest)), LAMBDA h :
    PThen(multispace0(h.rest), LAMBDA w2 :
    POk(w2.rest, h.out))))

\* all_consuming(delimited(multispace0, alt((parse_input, parse_alloc)),
\*                         multispace0))
parse_hint(input) ==
    PThen(multispace0(input), LAMBDA w1 :
    PThen(alt(parse_input(w1.rest), parse_alloc(w1.rest)), LAMBDA h :
    PThen(multispace0(h.rest), LAMBDA w2 :
    IF w2.rest = "" THEN POk(w2.rest, h.out) ELSE PErr(w2.rest, "Eof"))))

NoHint == <<"None">>

\* the Result of from_str, r being the result of parse_hint: the hint, or a
\* ParseHintError with its message (the parsers are complete ones: nom
\* returns no Incomplete)
ParseResult(r, input) ==
    IF r.ok
    THEN [kind |-> "Ok", hint |-> r.out, message |-> ""]
    ELSE [kind |-> "Err", hint |-> NoHint,
          message |-> "Error parsing hint " \o input \o ": Error { input: \""
                         \o r.rest \o "\", code: " \o r.code \o " }"]

\* impl FromStr for Hint
from_str(input) == ParseResult(parse_hint(input), input)

(***************************************************************************)
(* The decoder of the program input (program_input.rs). A JSON value is a  *)
(* tagged tuple; the members of an object are the (key, value) pairs in    *)
(* the order in which serde_json's Map iterates.                           *)
(***************************************************************************)
JsonNull == <<"Null">>
JsonBool(b) == <<"Bool", b>>
JsonNumber(literal) == <<"Number", literal>>
JsonString(str) == <<"String", str>>
JsonArray(arr) == <<"Array", arr>>
JsonObject(members) == <<"Object", members>>

\* the characters of the keys, in the order of their codes
Ascii == "0123456789ABCDEFGHIJKLMNOPQRSTUVWXYZ_abcdefghijklmnopqrstuvwxyz"

Code(c) == CHOOSE i \in 1 .. Len(Ascii) : CharAt(Ascii, i) = c

RECURSIVE StrLess(_, _)
\* Ord of String: a < b
StrLess(a, b) ==
    IF b = "" THEN FALSE
    ELSE IF a = "" THEN TRUE
    ELSE IF CharAt(a, 1) # CharAt(b, 1)
    THEN Code(CharAt(a, 1)) < Code(CharAt(b, 1))
    ELSE StrLess(Drop(a, 1), Drop(b, 1))

\* the place of the key k among the members
KeyIndex(members, k) ==
    IF \E i \in 1 .. Len(members) : members[i][1] = k
    THEN CHOOSE i \in 1 .. Len(members) : members[i][1] = k
    ELSE 0

\* the number of members whose key is below k
KeysBelow(members, k) ==
    Cardinality({i \in 1 .. Len(members) : StrLess(members[i][1], k)})

\* Map::insert: a key of the map keeps its place and takes the new value; a
\* new key goes to the end of an IndexMap (feature preserve_order) and to
\* its place in the order of the keys of a BTreeMap (the default)
MapInsert(members, k, v, preserve_order) ==
    IF KeyIndex(members, k) # 0
    THEN [members EXCEPT ![KeyIndex(members, k)] = <<k, v>>]
    ELSE IF preserve_order
    THEN Append(members, <<k, v>>)
    ELSE SubSeq(members, 1, KeysBelow(members, k)) \o << <<k, v>> >>
            \o SubSeq(members, KeysBelow(members, k) + 1, Len(members))

RECURSIVE serde_json_from_str(_, _)
RECURSIVE MapOfMembers(_, _, _)
\* the Map of the first n members of an object of the text
MapOfMembers(members, n, preserve_order) ==
    IF n = 0 THEN << >>
    ELSE MapInsert(MapOfMembers(members, n - 1, preserve_order),
                   members[n][1],
                   serde_json_from_str(members[n][2], preserve_order),
                   preserve_order)

\* serde_json::from_str on the text of the document doc, whose objects list
\* their members in the order of the text
serde_json_from_str(doc, preserve_order) ==
    CASE doc[1] = "Object" ->
            JsonObject(MapOfMembers(doc[2], Len(doc[2]), preserve_order))
      [] doc[1] = "Array" ->
            JsonArray([i \in 1 .. Len(doc[2]) |->
                          serde_json_from_str(doc[2][i], preserve_order)])
      [] OTHER -> doc

JOk(value) == [kind |-> "Ok", value |-> value, message |-> ""]
JErr(message) == [kind |-> "Err", value |-> << >>, message |-> message]

\* r?: the rest F runs on the value of an Ok
JTry(r, F(_)) == IF r.kind # "Ok" THEN r ELSE F(r.value)

HexChars == "0123456789abcdef"
UpperHexChars == "0123456789ABCDEF"

HexValue(c) ==
    IF \E d \in 0 .. 15 : CharAt(HexChars, d + 1) = c
    THEN CHOOSE d \in 0 .. 15 : CharAt(HexChars, d + 1) = c
    ELSE CHOOSE d \in 0 .. 15 : CharAt(UpperHexChars, d + 1) = c

RECURSIVE DecNumber(_, _)
\* the number that the first n decimal digits of s write
DecNumber(s, n) ==
    IF n = 0 THEN 0 ELSE DecNumber(s, n - 1) * 10 + DigitValue(CharAt(s, n))

RECURSIVE HexNumber(_, _)
\* the number that the first n hexadecimal digits of s write
HexNumber(s, n) ==
    IF n = 0 THEN 0 ELSE HexNumber(s, n - 1) * 16 + HexValue(CharAt(s, n))

AllIn(s, S) == s # "" /\ \A i \in 1 .. Len(s) : CharAt(s, i) \in S

\* Felt252::from_dec_str on the literal of a number
from_dec_str(literal) ==
    IF AllIn(literal, Digit)
    THEN JOk(ValueFelt(DecNumber(literal, Len(literal))))
    ELSE JErr("invalid field element")

\* serde_json::from_value::<Felt252> on a string: a hexadecimal literal
felt_from_string(str) ==
    IF Len(str) > 2 /\ SubSeq(str, 1, 2) = "0x"
        /\ AllIn(Drop(str, 2),
                 {CharAt(HexChars, i) : i \in 1 .. 16}
                    \cup {CharAt(UpperHexChars, i) : i \in 1 .. 16})
    THEN JOk(ValueFelt(HexNumber(Drop(str, 2), Len(str) - 2)))
    ELSE JErr("invalid field element")

RECURSIVE value_from_json(_)
RECURSIVE CollectFields(_, _)
RECURSIVE CollectElems(_, _)

\* obj.into_iter().map(..).collect() into an IndexMap: the first n members
\* in the order of the iteration, or the first error
CollectFields(members, n) ==
    IF n = 0 THEN JOk(<< >>)
    ELSE JTry(CollectFields(members, n - 1), LAMBDA fields :
         JTry(value_from_json(members[n][2]), LAMBDA x :
         JOk(Append(fields, <<members[n][1], x>>))))

\* arr.into_iter().map(..).collect() into a Vec
CollectElems(arr, n) ==
    IF n = 0 THEN JOk(<< >>)
    ELSE JTry(CollectElems(arr, n - 1), LAMBDA elems :
         JTry(value_from_json(arr[n]), LAMBDA x :
         JOk(Append(elems, x))))

value_from_json(val) ==
    CASE val[1] = "Number" -> from_dec_str(val[2])
      [] val[1] = "String" -> felt_from_string(val[2])
      [] val[1] = "Bool" -> JOk(ValueBool(val[2]))
      [] val[1] = "Object" ->
            JTry(CollectFields(val[2], Len(val[2])), LAMBDA mres :
            JOk(ValueRecord(mres)))
      [] val[1] = "Array" ->
            JTry(CollectElems(val[2], Len(val[2])), LAMBDA mres :
            JOk(ValueList(mres)))
      [] OTHER -> JErr("invalid value")

RECURSIVE InsertAll(_, _)
\* the loop of from_json over the first n members: res.insert(k, value)
InsertAll(members, n) ==
    IF n = 0 THEN JOk(<< >>)
    ELSE JTry(InsertAll(members, n - 1), LAMBDA res :
         JTry(value_from_json(members[n][2]), LAMBDA x :
         JOk((members[n][1] :> x) @@ res)))

\* ProgramInput::from_json, parsed being the result of serde_json::from_str
ProgramInputOf(parsed) ==
    IF parsed[1] = "Object" THEN InsertAll(parsed[2], Len(parsed[2]))
    ELSE JErr("invalid program input")

from_json(doc, preserve_order) ==
    ProgramInputOf(serde_json_from_str(doc, preserve_order))

(***************************************************************************)
(* The inputs of the model: Values of two levels of nesting.               *)
(***************************************************************************)
FieldNames == <<"a", "b", "c", "d", "e", "f">>

\* the record whose fields, in order, hold the values vs
MkRecord(vs) == ValueRecord([i \in 1 .. Len(vs) |-> <<FieldNames[i], vs[i]>>])

SeqsUpTo(S, n) == UNION {[1 .. k -> S] : k \in 0 .. n}

Containers(S, n) ==
    {ValueList(vs) : vs \in SeqsUpTo(S, n)}
        \cup {MkRecord(vs) : vs \in SeqsUpTo(S, n)}

Scalars ==
    {ValueFelt(1), ValueFelt(2), ValueFelt(5), ValueBool(TRUE), ValueBool(FALSE)}

\* records and lists of scalars
FlatValues == Containers(Scalars, MaxLen)

\* the fields and elements of the nested values: scalars and small records
\* and lists
Kids ==
    {ValueFelt(5), ValueBool(TRUE), ValueBool(FALSE)}
        \cup Containers({ValueFelt(5), ValueBool(FALSE)}, MaxInnerLen)

NestedValues == Containers(Kids, MaxLen)

Values == Scalars \cup FlatValues \cup NestedValues

\* program inputs of the runs: scalars, a list and a record of scalars, and
\* records and lists with a record or a list inside
RunValues ==
    {ValueFelt(5), ValueBool(TRUE), ValueBool(FALSE),
     ValueList(<<ValueFelt(1), ValueFelt(2)>>),
     MkRecord(<<ValueFelt(5), ValueBool(TRUE)>>),
     MkRecord(<<ValueList(<< >>)>>),
     MkRecord(<<ValueList(<<ValueBool(FALSE)>>), ValueBool(FALSE)>>),
     ValueList(<<MkRecord(<<ValueBool(FALSE)>>)>>)}

\* names the Input hints of a run use: X is in the table, Y is not
VarNames == {"X", "Y"}

AllocSizes == {0, 1, UsizeMax}

(***************************************************************************)
(* State.                                                                  *)
(***************************************************************************)
VARIABLES
    program_input,      \* JuvixHintProcessor.program_input.input_values
    overflow_checks,    \* whether the build panics on usize overflow
    memory,             \* the cells of the VM's memory that are written
    num_segments,       \* the number of memory segments of the VM
    ap,                 \* vm.get_ap()
    memory_exec_scope,  \* << >>, or <<next_address>> once Alloc created it
    status,             \* "running", "error" (a hint returned Err), "panic"
    hints_run,          \* number of hints executed
    alloc_log,          \* <<size, address written>> of the Allocs that returned Ok
    last,               \* the last hint executed and what it did
    enc,                \* the encoder applied to one value at one address
    parser,             \* the hint parser applied to one text
    decoder             \* the JSON decoder applied to one document

vars == <<program_input, overflow_checks, memory, num_segments, ap,
          memory_exec_scope, status, hints_run, alloc_log, last, enc,
          parser, decoder>>

NoLast ==
    [hint |-> NoHint, arg |-> <<0, 0>>, kind |-> "Ok", trace |-> << >>,
     failed |-> << >>, ap |-> Relocatable(1, 0), segments |-> 2,
     scope |-> << >>]

NoEnc ==
    [val |-> ValueFelt(1), addr |-> Relocatable(2, 0), done |-> FALSE,
     res |-> Ok(NewVm(<< >>, 3), 0)]

NoParser ==
    [case |-> <<"None">>, input |-> "", done |-> FALSE,
     res |-> [kind |-> "Ok", hint |-> NoHint, message |-> ""]]

NoDecoder ==
    [doc |-> JsonNull, preserve_order |-> TRUE, done |-> FALSE,
     res |-> JOk(<< >>)]

\* a run starts with the program segment 0 and the execution segment 1, ap
\* at the start of the execution segment, and no "memory_exec_scope"
Init ==
    /\ program_input \in {("X" :> v) : v \in RunValues}
    /\ overflow_checks \in BOOLEAN
    /\ memory = << >>
    /\ num_segments = 2
    /\ ap = Relocatable(1, 0)
    /\ memory_exec_scope = << >>
    /\ status = "running"
    /\ hints_run = 0
    /\ alloc_log = << >>
    /\ last = NoLast
    /\ enc = NoEnc
    /\ parser = NoParser
    /\ decoder = NoDecoder

StatusOf(kind) ==
    CASE kind = "Ok" -> "running"
      [] kind = "Err" -> "error"
      [] kind = "Panic" -> "panic"

\* the address a cell value points to
AddrOf(v) == Relocatable(v[2], v[3])

\* the state after a hint whose outcome is r
Commit(r, hint, arg) ==
    /\ memory' = r.vm.memory
    /\ num_segments' = r.vm.num_segments
    /\ memory_exec_scope' = r.scope
    /\ status' = StatusOf(r.kind)
    /\ alloc_log' = IF hint[1] = "Alloc" /\ r.kind = "Ok"
                    THEN Append(alloc_log, <<hint[2], AddrOf(r.vm.trace[1][2])>>)
                    ELSE alloc_log
    /\ last' = [hint |-> hint, arg |-> arg, kind |-> r.kind,
                trace |-> r.vm.trace, failed |-> r.vm.failed, ap |-> ap,
                segments |-> num_segments,
                scope |-> memory_exec_scope]

\* execute_hint: the host calls the processor with one hint; a hint that
\* fails ends the run
ExecuteHint(hint, arg) ==
    /\ status = "running"
    /\ hints_run < MaxHints
    /\ Commit(execute(overflow_checks, NewVm(memory, num_segments),
                      memory_exec_scope, ap, program_input, hint, arg),
              hint, arg)
    /\ hints_run' = hints_run + 1
    /\ UNCHANGED <<program_input, overflow_checks, ap, enc, parser, decoder>>

\* Alloc(size): the size is a usize
AllocHint ==
    \E size \in AllocSizes :
        /\ size \in 0 .. UsizeMax
        /\ ExecuteHint(Alloc(size), <<0, 0>>)

\* Input(var): the name is any string
InputHint ==
    \E var \in VarNames :
        /\ var \in STRING
        /\ ExecuteHint(Input(var), <<0, 0>>)

\* RandomEcPoint: the loop draws until x^3 + x + beta is a quadratic residue
RandomEcPointHint ==
    \E x \in Fq :
        /\ IsQr(CurveRhs(x))
        /\ \E y \in (IF SqrtSet(CurveRhs(x)) = {} THEN {-1}
                      ELSE SqrtSet(CurveRhs(x))) :
                ExecuteHint(RandomEcPoint, <<x, y>>)

\* the program moves ap between two hints
AdvanceAp ==
    /\ status = "running"
    /\ ap[2] < MaxAp
    /\ ap' = Relocatable(ap[1], ap[2] + 1)
    /\ UNCHANGED <<program_input, overflow_checks, memory, num_segments,
                   memory_exec_scope, status, hints_run, alloc_log, last, enc,
                   parser, decoder>>

Next == AllocHint \/ InputHint \/ RandomEcPointHint \/ AdvanceAp

Spec == Init /\ [][Next]_vars

(***************************************************************************)
(* The encoder alone: one Value encoded at one address of a fresh segment. *)
(***************************************************************************)
InitEnc ==
    /\ program_input = ("X" :> ValueFelt(1))
    /\ overflow_checks \in BOOLEAN
    /\ memory = << >>
    /\ num_segments = 2
    /\ ap = Relocatable(1, 0)
    /\ memory_exec_scope = << >>
    /\ status = "running"
    /\ hints_run = 0
    /\ alloc_log = << >>
    /\ last = NoLast
    /\ enc \in {[NoEnc EXCEPT !.val = v, !.addr = Relocatable(2, b)] :
                    v \in Values, b \in 0 .. MaxBase}
    /\ parser = NoParser
    /\ decoder = NoDecoder

EncodeValue ==
    /\ ~enc.done
    /\ enc' = [enc EXCEPT !.done = TRUE,
                          !.res = read_value_input(overflow_checks,
                                                   NewVm(<< >>, 3),
                                                   enc.addr, enc.val)]
    /\ UNCHANGED <<program_input, overflow_checks, memory, num_segments, ap,
                   memory_exec_scope, status, hints_run, alloc_log, last,
                   parser, decoder>>

NextEnc == EncodeValue

SpecEnc == InitEnc /\ [][NextEnc]_vars

(***************************************************************************)
(* The parser alone: one hint text parsed. The texts are renderings of     *)
(* Alloc and Input hints with whitespace around the tokens, Input hints    *)
(* with a quoted name or with two names, the texts of the parser's tests   *)
(* and other texts with one defect, and all texts of up to MaxPieces       *)
(* tokens.                                                                 *)
(***************************************************************************)
RECURSIVE ToDec(_)
\* the decimal rendering of n
ToDec(n) ==
    IF n < 10 THEN CharAt(DigitChars, n + 1)
    ELSE ToDec(n \div 10) \o CharAt(DigitChars, (n % 10) + 1)

RECURSIVE Strings(_, _)
\* the strings of k characters of S
Strings(S, k) ==
    IF k = 0 THEN {""} ELSE {c \o t : c \in S, t \in Strings(S, k - 1)}

RECURSIVE Concat(_)
Concat(ps) == IF ps = << >> THEN "" ELSE Head(ps) \o Concat(Tail(ps))

WsRuns == {"", " ", "\t\n\r"}

NameChars == {"a", "Z", "_", "9"}
Names == UNION {Strings(NameChars, k) : k \in 1 .. MaxNameLen}

QuotedChars == {"a", " ", "\"", "\\"}
QuotedNames == UNION {Strings(QuotedChars, k) : k \in 0 .. MaxNameLen}

RECURSIVE Escape(_)
\* s with a backslash before each quote and backslash
Escape(s) ==
    IF s = "" THEN ""
    ELSE (IF CharAt(s, 1) \in {"\"", "\\"} THEN "\\" ELSE "")
            \o CharAt(s, 1) \o Escape(Drop(s, 1))

\* name(arg) with the whitespace ws around the tokens
Rendering(name, arg, ws) ==
    ws[1] \o name \o ws[2] \o "(" \o ws[3] \o arg \o ws[4] \o ")" \o ws[5]

DefectTexts ==
    {"nonsense", "Incomplete", "Alloc(34) extra", "Alloc(-1)",
     "Input(var) extra", "Input(1var)", "Input(var var)",
     "", " ", "RandomEcPoint", "RandomEcPoint()", "Free(1)", "alloc(1)",
     "input(x)", "Alloc", "Alloc(", "Alloc(12", "Alloc()", "Alloc 12",
     "Input", "Input(", "Input(ab", "Input()", "Input(a b)",
     "Al loc(1)", "Alloc(1 2)", "Alloc(+1)", "Alloc(1.0)", "Alloc(1))",
     "Alloc(1)Alloc(1)", "Alloc(x)", "Input(a-b)", "(1)", "Alloc[1]"}

\* the tokens of the texts of tokens; Alloc and Input are names as well
Pieces == {"Alloc", "Input", "(", ")", " ", "7"}

\* the whitespace at the five places of a rendering: any runs, the same run
WsAny == [1 .. 5 -> WsRuns]
WsSame == {[i \in 1 .. 5 |-> w] : w \in WsRuns}

Cases ==
    {<<"Alloc", ws, n>> : ws \in WsSame, n \in 0 .. UsizeMax + 2}
        \cup {<<"Alloc", ws, n>> : ws \in WsAny, n \in {0, 10, UsizeMax}}
        \cup {<<"Input", ws, name>> : ws \in WsSame, name \in Names}
        \cup {<<"Input", ws, name>> :
                ws \in WsAny, name \in Strings(NameChars, 1)}
        \cup {<<"Quoted", ws, name>> : ws \in WsSame, name \in QuotedNames}
        \cup {<<"TwoNames", w, name1, name2>> :
                w \in WsRuns \ {""}, name1 \in Names,
                name2 \in Strings(NameChars, 1)}
        \cup {<<"Defect", t>> : t \in DefectTexts}
        \cup {<<"Pieces", ps>> : ps \in SeqsUpTo(Pieces, MaxPieces)}

\* the text of a case
CaseText(c) ==
    CASE c[1] = "Alloc" -> Rendering("Alloc", ToDec(c[3]), c[2])
      [] c[1] = "Input" -> Rendering("Input", c[3], c[2])
      [] c[1] = "Quoted" ->
            Rendering("Input", "\"" \o Escape(c[3]) \o "\"", c[2])
      [] c[1] = "TwoNames" -> "Input(" \o c[3] \o c[2] \o c[4] \o ")"
      [] c[1] = "Defect" -> c[2]
      [] c[1] = "Pieces" -> Concat(c[2])

InitParse ==
    /\ program_input = ("X" :> ValueFelt(1))
    /\ overflow_checks = FALSE
    /\ memory = << >>
    /\ num_segments = 2
    /\ ap = Relocatable(1, 0)
    /\ memory_exec_scope = << >>
    /\ status = "running"
    /\ hints_run = 0
    /\ alloc_log = << >>
    /\ last = NoLast
    /\ enc = NoEnc
    /\ parser \in {[NoParser EXCEPT !.case = c, !.input = CaseText(c)] :
                       c \in Cases}
    /\ decoder = NoDecoder

\* text.parse::<Hint>()
ParseHint ==
    /\ ~parser.done
    /\ parser' = [parser EXCEPT !.done = TRUE, !.res = from_str(parser.input)]
    /\ UNCHANGED <<program_input, overflow_checks, memory, num_segments, ap,
                   memory_exec_scope, status, hints_run, alloc_log, last,
                   enc, decoder>>

NextParse == ParseHint

SpecParse == InitParse /\ [][NextParse]_vars

(***************************************************************************)
(* The decoder alone: one JSON document decoded, in a build of serde_json  *)
(* with or without the feature preserve_order.                             *)
(***************************************************************************)
JsonKeys == {"b", "a", "B"}

\* the sequences of up to n different keys
KeySeqs(n) ==
    {ks \in SeqsUpTo(JsonKeys, n) :
        \A i, j \in 1 .. Len(ks) : i # j => ks[i] # ks[j]}

\* the objects with the keys ks, in this order, and values of S
ObjectsOf(ks, S) ==
    {JsonObject([i \in 1 .. Len(ks) |-> <<ks[i], vs[i]>>]) :
        vs \in [1 .. Len(ks) -> S]}

JsonLeaves ==
    {JsonNumber("1"), JsonNumber("17"), JsonBool(TRUE), JsonBool(FALSE)}

\* the values inside an object or array of the documents
JsonInner ==
    JsonLeaves
        \cup {JsonString("0x1f"), JsonString("x"), JsonNumber("1.5"), JsonNull,
              JsonArray(<<JsonNumber("17"), JsonNumber("1")>>),
              JsonObject(<< <<"b", JsonNumber("1")>>,
                            <<"a", JsonArray(<<JsonBool(TRUE)>>)>> >>),
              JsonObject(<< <<"A", JsonNumber("1")>>,
                            <<"B", JsonNumber("17")>> >>)}

JsonValues ==
    JsonInner
        \cup UNION {ObjectsOf(ks, JsonInner) : ks \in KeySeqs(MaxLen)}
        \cup {JsonArray(vs) : vs \in SeqsUpTo(JsonInner, MaxLen)}

\* the documents: {"X": v}, {"Y": v, "X": 1}, and v itself
Documents ==
    {JsonObject(<< <<"X", v>> >>) : v \in JsonValues}
        \cup {JsonObject(<< <<"Y", v>>, <<"X", JsonNumber("1")>> >>) :
                v \in JsonInner}
        \cup JsonInner

InitJson ==
    /\ program_input = ("X" :> ValueFelt(1))
    /\ overflow_checks = FALSE
    /\ memory = << >>
    /\ num_segments = 2
    /\ ap = Relocatable(1, 0)
    /\ memory_exec_scope = << >>
    /\ status = "running"
    /\ hints_run = 0
    /\ alloc_log = << >>
    /\ last = NoLast
    /\ enc = NoEnc
    /\ parser = NoParser
    /\ decoder \in {[NoDecoder EXCEPT !.doc = doc, !.preserve_order = p] :
                        doc \in Documents, p \in BOOLEAN}

\* ProgramInput::from_json(text)
DecodeJson ==
    /\ ~decoder.done
    /\ decoder' = [decoder EXCEPT
                       !.done = TRUE,
                       !.res = from_json(decoder.doc, decoder.preserve_order)]
    /\ UNCHANGED <<program_input, overflow_checks, memory, num_segments, ap,
                   memory_exec_scope, status, hints_run, alloc_log, last,
                   enc, parser>>

NextJson == DecodeJson

SpecJson == InitJson /\ [][NextJson]_vars

(***************************************************************************)
(* Properties of the allocation cursor.                                    *)
(***************************************************************************)
\* a hint has just been executed
HintStep == hints_run' = hints_run + 1

RECURSIVE SumSizes(_, _)
\* s_1 + ... + s_n of the logged Allocs
SumSizes(log, n) == IF n = 0 THEN 0 ELSE SumSizes(log, n - 1) + log[n][1]

\* C1: the address written by the i-th successful Alloc of a run is the base
\* of the Alloc segment plus s_1 + ... + s_(i-1).
C1_AllocAddressIsBasePlusSum ==
    \A i \in 1 .. Len(alloc_log) :
        alloc_log[i][2]
            = Relocatable(alloc_log[1][2][1], SumSizes(alloc_log, i - 1))

\* C2 as stated: the addresses returned by the Allocs of a run are strictly
\* increasing, whatever the sizes.
C2_AllocStrictlyIncreasing ==
    \A i \in 1 .. Len(alloc_log) - 1 :
        /\ alloc_log[i + 1][2][1] = alloc_log[i][2][1]
        /\ alloc_log[i + 1][2][2] > alloc_log[i][2][2]

\* C2 amended: the address returned by the next Alloc lies in the same
\* segment, and it is strictly greater than the one returned by the i-th
\* Alloc exactly when s_i is not zero and the cursor plus s_i fits the size
\* type; for s_i = 0 the two addresses are equal.
C2_AllocIncreasingIffNonZero ==
    \A i \in 1 .. Len(alloc_log) - 1 :
        /\ alloc_log[i + 1][2][1] = alloc_log[i][2][1]
        /\ (alloc_log[i + 1][2][2] > alloc_log[i][2][2])
               <=> (/\ alloc_log[i][1] > 0
                    /\ alloc_log[i][2][2] + alloc_log[i][1] <= UsizeMax)
        /\ (alloc_log[i][1] = 0
               => alloc_log[i + 1][2][2] = alloc_log[i][2][2])

C2_Witness ==
    /\ Len(alloc_log) >= 2
    /\ alloc_log[1][1] > 0
    /\ alloc_log[2][2][2] > alloc_log[1][2][2]

\* C3: the first Alloc of a run requests one segment and starts the cursor
\* at its start; a later Alloc requests no segment and writes the cursor it
\* found; once created the cursor stays in its segment, and so do all
\* addresses returned by Alloc.
C3_CursorCreatedOnce ==
    [][/\ memory_exec_scope # << >>
            => /\ memory_exec_scope' # << >>
               /\ memory_exec_scope'[1][1] = memory_exec_scope[1][1]
       /\ (HintStep /\ last'.hint[1] = "Alloc")
            => /\ memory_exec_scope' # << >>
               /\ IF memory_exec_scope = << >>
                  THEN /\ num_segments' = num_segments + 1
                       /\ memory_exec_scope'[1][1] = num_segments
                       /\ last'.kind = "Ok"
                            => /\ last'.trace
                                    = << <<ap, RelocatableValue(
                                                 Relocatable(num_segments, 0))>> >>
                               /\ Len(alloc_log') = 1
                       /\ last'.kind # "Ok"
                            => memory_exec_scope'
                                    = <<Relocatable(num_segments, 0)>>
                  ELSE /\ num_segments' = num_segments
                       /\ last'.kind = "Ok"
                            => last'.trace
                                    = << <<ap, RelocatableValue(
                                                 memory_exec_scope[1])>> >>
       /\ \A i \in 1 .. Len(alloc_log') :
            alloc_log'[i][2][1] = memory_exec_scope'[1][1]
      ]_vars

C3_Witness ==
    /\ Len(alloc_log) >= 2
    /\ last.hint[1] = "Alloc"
    /\ last.kind = "Ok"
    /\ last.scope # << >>
    /\ num_segments = 3

\* C4: an Input or RandomEcPoint hint leaves the allocation cursor as it
\* found it, absent or present, and does to the memory what it would do
\* were the cursor absent.
C4_InputAndEcPointKeepCursor ==
    [][(HintStep /\ last'.hint[1] \in {"Input", "RandomEcPoint"})
            => /\ memory_exec_scope' = memory_exec_scope
               /\ LET r == execute(overflow_checks,
                                   NewVm(memory, num_segments), << >>, ap,
                                   program_input, last'.hint, last'.arg)
                  IN  /\ r.kind = last'.kind
                      /\ r.vm.memory = memory'
                      /\ r.vm.num_segments = num_segments'
      ]_vars

C4_Witness ==
    /\ last.hint = Input("X")
    /\ last.kind = "Ok"
    /\ last.scope # << >>
    /\ memory_exec_scope = last.scope

(***************************************************************************)
(* Properties of the Input hint.                                           *)
(***************************************************************************)
\* the cell value of a scalar: v for Felt(v), 0 for true, 1 for false
ScalarCell(val) ==
    CASE val[1] = "ValueFelt" -> IntValue(val[2])
      [] val = ValueBool(TRUE) -> IntValue(0)
      [] val = ValueBool(FALSE) -> IntValue(1)

\* the step executes Input on a name of the table
InputStepOf(var) == HintStep /\ last'.hint = Input(var) /\ var \in DOMAIN program_input

\* the output cell of the hint takes the value v
ApAccepts(v) == ap \notin DOMAIN memory \/ memory[ap] = v

C6_ScalarInputWritesOutputCell ==
    [][\A var \in VarNames :
        /\ (InputStepOf(var) /\ IsScalar(program_input[var]))
            => /\ num_segments' = num_segments
               /\ IF ApAccepts(ScalarCell(program_input[var]))
                  THEN /\ last'.kind = "Ok"
                       /\ last'.trace
                            = << <<ap, ScalarCell(program_input[var])>> >>
                       /\ DOMAIN memory' = DOMAIN memory \cup {ap}
                       /\ memory'[ap] = ScalarCell(program_input[var])
                       /\ \A c \in DOMAIN memory : memory'[c] = memory[c]
                  ELSE /\ last'.kind = "Err"
                       /\ last'.trace = << >>
                       /\ memory' = memory
        /\ (InputStepOf(var) /\ ~IsScalar(program_input[var])
                /\ last'.kind = "Ok")
            => LET val == program_input[var]
                   ref(i) == IF val[1] = "ValueRecord"
                             THEN Relocatable(num_segments, i)
                             ELSE Relocatable(num_segments, 3 * (i - 1) + 1)
                   item(i) == IF val[1] = "ValueRecord" THEN val[2][i][2]
                              ELSE val[2][i]
               IN  \A i \in 1 .. Len(val[2]) :
                     IsScalar(item(i)) => memory'[ref(i)] = ScalarCell(item(i))
      ]_vars

C6_Witness ==
    /\ last.hint = Input("X")
    /\ last.kind = "Ok"
    /\ program_input["X"] = ValueBool(TRUE)
    /\ last.trace = << <<last.ap, IntValue(0)>> >>
    /\ num_segments = last.segments

\* C7: Input of a name that is not in the table aborts the run, and does so
\* before a cell is written or a segment requested.
C7_MissingInputAborts ==
    [][(HintStep /\ last'.hint[1] = "Input"
            /\ last'.hint[2] \notin DOMAIN program_input)
            => /\ last'.kind = "Panic"
               /\ status' = "panic"
               /\ last'.trace = << >>
               /\ memory' = memory
               /\ num_segments' = num_segments
      ]_vars

C7_Witness ==
    /\ last.hint = Input("Y")
    /\ "Y" \notin DOMAIN program_input
    /\ status = "panic"

(***************************************************************************)
(* Properties of the encoder.                                              *)
(***************************************************************************)
\* the cell o cells after the base address of the encoding
EncCell(o) == Relocatable(enc.addr[1], enc.addr[2] + o)

EncMemory == enc.res.vm.memory

AllScalar(vs) == \A i \in 1 .. Len(vs) : IsScalar(vs[i])

\* C8: a List of k scalars encoded at A fills exactly the cells A .. A+3k:
\* cons tag 1, the scalar and the address A+3(j+1) for the element j, then
\* the nil tag 0 at A+3k; List([Felt(1), Felt(2)]) takes 7 cells.
C8_ListOfScalarsLayout ==
    (enc.done /\ enc.val[1] = "ValueList" /\ AllScalar(enc.val[2])
        /\ enc.addr[2] + 3 * Len(enc.val[2]) <= UsizeMax)
        => LET elems == enc.val[2]
               k == Len(elems)
           IN  /\ enc.res.kind = "Ok"
               /\ DOMAIN EncMemory = {EncCell(o) : o \in 0 .. 3 * k}
               /\ Len(enc.res.vm.trace) = 3 * k + 1
               /\ \A j \in 0 .. k - 1 :
                    /\ EncMemory[EncCell(3 * j)] = IntValue(1)
                    /\ EncMemory[EncCell(3 * j + 1)] = ScalarCell(elems[j + 1])
                    /\ EncMemory[EncCell(3 * j + 2)]
                         = RelocatableValue(EncCell(3 * (j + 1)))
               /\ EncMemory[EncCell(3 * k)] = IntValue(0)
               /\ elems = <<ValueFelt(1), ValueFelt(2)>>
                    => /\ Cardinality(DOMAIN EncMemory) = 7
                       /\ EncMemory[EncCell(1)] = IntValue(1)
                       /\ EncMemory[EncCell(2)] = RelocatableValue(EncCell(3))
                       /\ EncMemory[EncCell(4)] = IntValue(2)
                       /\ EncMemory[EncCell(5)] = RelocatableValue(EncCell(6))
                       /\ EncMemory[EncCell(6)] = IntValue(0)

C8_Witness ==
    /\ enc.done
    /\ enc.val = ValueList(<<ValueFelt(1), ValueFelt(2)>>)
    /\ enc.addr[2] > 0
    /\ enc.res.kind = "Ok"
    /\ Cardinality(DOMAIN EncMemory) = 7

RECURSIVE CellsOf(_)
RECURSIVE CellsOfAll(_, _)
\* the number of cells of the encoding of a value: 1 for a scalar, the
\* header block and the field bodies for a record, the chain and the
\* element bodies for a list
CellsOf(val) ==
    CASE IsScalar(val) -> 1
      [] val[1] = "ValueRecord" ->
            1 + Len(val[2])
              + CellsOfAll([i \in 1 .. Len(val[2]) |-> val[2][i][2]],
                           Len(val[2]))
      [] val[1] = "ValueList" ->
            3 * Len(val[2]) + 1 + CellsOfAll(val[2], Len(val[2]))

\* the cells of the bodies of the non-scalar values among the first n of vs
CellsOfAll(vs, n) ==
    IF n = 0 THEN 0
    ELSE CellsOfAll(vs, n - 1) + (IF IsScalar(vs[n]) THEN 0 ELSE CellsOf(vs[n]))

\* C9: a Record of n fields encoded at A has the header tag 0 at A and
\* refers to the field i from the cell A+1+i; the body of the first
\* non-scalar field starts at A+n+1, the body of a later one right after the
\* body before it, and the reference cell of a non-scalar field holds the
\* start of its body.
C9_RecordLayout ==
    (enc.done /\ enc.val[1] = "ValueRecord")
        => LET fields == [i \in 1 .. Len(enc.val[2]) |-> enc.val[2][i][2]]
               n == Len(fields)
               body(i) == EncCell(n + 1 + CellsOfAll(fields, i - 1))
           IN  /\ EncCell(0) \in DOMAIN EncMemory
                    => EncMemory[EncCell(0)] = IntValue(0)
               /\ \A i \in 1 .. n :
                    EncCell(i) \in DOMAIN EncMemory
                        => EncMemory[EncCell(i)]
                             = IF IsScalar(fields[i])
                               THEN ScalarCell(fields[i])
                               ELSE RelocatableValue(body(i))

\* C10 as stated: Record({"a": Felt(5), "b": Bool(true)}) encoded at A
\* gives the cells A = 0, A+1 = 5, A+2 = 1 and no other cell.
C10_RecordOfScalarsAsStated ==
    (enc.done /\ enc.val = MkRecord(<<ValueFelt(5), ValueBool(TRUE)>>))
        => /\ enc.res.kind = "Ok"
           /\ EncMemory = (EncCell(0) :> IntValue(0))
                            @@ (EncCell(1) :> IntValue(5))
                            @@ (EncCell(2) :> IntValue(1))

\* C10 amended: Record({"a": Felt(5), "b": Bool(true)}) encoded at A gives
\* the cells A = 0, A+1 = 5, A+2 = 0 (true is written as 0), writes no other
\* cell and requests no segment.
C10_RecordOfScalarsLayout ==
    (enc.done /\ enc.val = MkRecord(<<ValueFelt(5), ValueBool(TRUE)>>))
        => /\ enc.res.kind = "Ok"
           /\ EncMemory = (EncCell(0) :> IntValue(0))
                            @@ (EncCell(1) :> IntValue(5))
                            @@ (EncCell(2) :> IntValue(0))
           /\ Len(enc.res.vm.trace) = 3
           /\ enc.res.vm.num_segments = 3

C10_Witness ==
    /\ enc.done
    /\ enc.val = MkRecord(<<ValueFelt(5), ValueBool(TRUE)>>)
    /\ enc.res.kind = "Ok"
    /\ Cardinality(DOMAIN EncMemory) = 3

\* C11: a successful encode returns the number of cells it consumed: the
\* cells written are exactly A .. A+ret-1, with ret = 1 for a scalar, the
\* header block and the field bodies for a Record (n+1 when the n fields are
\* scalar), and 3k+1 plus the element bodies for a List of k elements.
C11_ReturnIsCellsConsumed ==
    (enc.done /\ enc.res.kind = "Ok")
        => /\ DOMAIN EncMemory = {EncCell(o) : o \in 0 .. enc.res.ret - 1}
           /\ enc.res.ret = CellsOf(enc.val)

\* the addresses of the writes of the encoding, in order
EncWrites == [j \in 1 .. Len(enc.res.vm.trace) |-> enc.res.vm.trace[j][1]]

\* C18: encoding a Value at the start of a fresh segment never writes the
\* same cell twice and never meets the host's error for a cell that is
\* already written.
C18_NoCellWrittenTwice ==
    (enc.done /\ enc.addr[2] = 0)
        => /\ enc.res.kind = "Ok"
           /\ \A j, k \in 1 .. Len(EncWrites) :
                j # k => EncWrites[j] # EncWrites[k]

(***************************************************************************)
(* Properties of the RandomEcPoint hint and of failing writes.             *)
(***************************************************************************)
\* C17: an execution of RandomEcPoint that returns Ok writes x to the
\* output cell and y to the cell after it, and nothing else, with
\* y^2 = x^3 + x + beta in the field; the x it accepted makes x^3 + x + beta
\* a quadratic residue. This holds of every execution of a run.
C17_EcPointOnCurve ==
    [][(HintStep /\ last'.hint = RandomEcPoint /\ last'.kind = "Ok")
            => \E x, y \in Fq :
                 /\ last'.trace = << <<ap, IntValue(x)>>,
                                     <<Relocatable(ap[1], ap[2] + 1),
                                       IntValue(y)>> >>
                 /\ memory'[ap] = IntValue(x)
                 /\ memory'[Relocatable(ap[1], ap[2] + 1)] = IntValue(y)
                 /\ (y * y) % FieldModulus
                        = (x * x * x + x + Beta) % FieldModulus
                 /\ PowMod((x * x * x + x + Beta) % FieldModulus,
                           (FieldModulus - 1) \div 2) = 1
      ]_vars

\* two executions of RandomEcPoint in one run, both Ok
C17_Witness ==
    /\ hints_run = 2
    /\ last.hint = RandomEcPoint
    /\ last.kind = "Ok"
    /\ last.ap = Relocatable(1, 2)
    /\ Cardinality(DOMAIN memory) = 4

\* C19: when the host refuses a write of a hint, the hint returns an error
\* and performs no write after the refused one; the cells written before it
\* stay written, no cell loses or changes its value, and an Alloc whose
\* write is refused leaves the cursor where it found or created it.
C19_WriteFailureStopsHint ==
    [][HintStep
            => /\ \A j \in 1 .. Len(last'.trace) :
                    /\ last'.trace[j][1] \in DOMAIN memory'
                    /\ memory'[last'.trace[j][1]] = last'.trace[j][2]
               /\ \A c \in DOMAIN memory :
                    c \in DOMAIN memory' /\ memory'[c] = memory[c]
               /\ last'.failed # << >>
                    => /\ last'.kind = "Err"
                       /\ status' = "error"
                       /\ Len(last'.trace) = last'.failed[3]
                       /\ last'.failed[1] \in DOMAIN memory'
                       /\ memory'[last'.failed[1]] # last'.failed[2]
                       /\ last'.hint[1] = "Alloc"
                            => memory_exec_scope'
                                 = IF memory_exec_scope = << >>
                                   THEN <<Relocatable(num_segments, 0)>>
                                   ELSE memory_exec_scope
      ]_vars

\* an Input whose write is refused inside the encoder, after three writes
C19_Witness ==
    /\ last.hint[1] = "Input"
    /\ last.kind = "Err"
    /\ last.failed # << >>
    /\ last.failed[3] >= 3
    /\ \A j \in 1 .. Len(last.trace) : last.trace[j][1] \in DOMAIN memory

\* an Alloc whose write is refused, with the cursor in place
C19_WitnessAlloc ==
    /\ last.hint[1] = "Alloc"
    /\ last.failed # << >>
    /\ last.scope # << >>
    /\ memory_exec_scope = last.scope

(***************************************************************************)
(* Properties of the hint parser.                                          *)
(***************************************************************************)
ParseOk(hint) == parser.res.kind = "Ok" /\ parser.res.hint = hint

ErrorPrefix == "Error parsing hint"

\* the text is refused: no hint, and a message that starts with the prefix
ParseErr ==
    /\ parser.res.kind = "Err"
    /\ parser.res.hint = NoHint
    /\ Len(parser.res.message) >= Len(ErrorPrefix)
    /\ SubSeq(parser.res.message, 1, Len(ErrorPrefix)) = ErrorPrefix

\* a letter or underscore followed by letters, digits and underscores
IsIdentifier(name) ==
    /\ Len(name) >= 1
    /\ CharAt(name, 1) \in Alpha \cup {"_"}
    /\ \A i \in 1 .. Len(name) : CharAt(name, i) \in Alpha \cup Digit \cup {"_"}

\* C12: the text Input("s'"), s' being s with each quote and backslash
\* escaped, with any whitespace around the tokens, parses to Input(s).
C12_QuotedInputParses ==
    (parser.done /\ parser.case[1] = "Quoted")
        => ParseOk(Input(parser.case[3]))

\* C13: every rendering of Alloc(n), n in the size type, with any whitespace
\* before Alloc, between Alloc and the parenthesis, around the digits and
\* after the closing parenthesis, parses to Alloc(n).
C13_AllocParses ==
    (parser.done /\ parser.case[1] = "Alloc" /\ parser.case[3] <= UsizeMax)
        => ParseOk(Alloc(parser.case[3]))

C13_Witness ==
    /\ parser.done
    /\ parser.case[1] = "Alloc"
    /\ parser.case[3] = UsizeMax
    /\ \A i \in 1 .. 5 : parser.case[2][i] = "\t\n\r"
    /\ ParseOk(Alloc(UsizeMax))

\* C14: Input(id) with a bare identifier id parses to Input(id), the name
\* unchanged; a name that starts with a digit is refused, and so are two
\* identifiers separated by whitespace.
C14_BareIdentifierParses ==
    /\ (parser.done /\ parser.case[1] = "Input")
            => IF IsIdentifier(parser.case[3])
               THEN ParseOk(Input(parser.case[3]))
               ELSE ParseErr
    /\ (parser.done /\ parser.case[1] = "Defect"
            /\ parser.case[2] \in {"Input(1var)", "Input(var var)",
                                   "Input(a b)"})
            => ParseErr
    /\ (parser.done /\ parser.case[1] = "TwoNames") => ParseErr

C14_Witness ==
    /\ parser.done
    /\ parser.case[1] = "Input"
    /\ parser.case[3] = "_9"
    /\ parser.case[2][3] = " "
    /\ ParseOk(Input("_9"))

\* the tokens of ps from the position i on that are spaces, plus i - 1
RECURSIVE SkipSpaces(_, _)
SkipSpaces(ps, i) ==
    IF i <= Len(ps) /\ ps[i] = " " THEN SkipSpaces(ps, i + 1) ELSE i

RECURSIVE ArgEnd(_, _, _)
\* the first position from i on whose token is not in S
ArgEnd(ps, S, i) ==
    IF i <= Len(ps) /\ ps[i] \in S THEN ArgEnd(ps, S, i + 1) ELSE i

RECURSIVE Sevens(_)
\* the number written with k digits 7
Sevens(k) == IF k = 0 THEN 0 ELSE Sevens(k - 1) * 10 + 7

\* the grammar WS name WS ( WS arg WS ) WS on a sequence of tokens: the
\* positions of the name, the parenthesis, the argument and its end, and of
\* the closing parenthesis
Shape(ps, S) ==
    LET name == SkipSpaces(ps, 1)
        open == SkipSpaces(ps, name + 1)
        arg == SkipSpaces(ps, open + 1)
        end == ArgEnd(ps, S, arg)
        close == SkipSpaces(ps, end)
    IN  [ok |-> /\ close <= Len(ps)
                /\ ps[open] = "("
                /\ end > arg
                /\ ps[close] = ")"
                /\ SkipSpaces(ps, close + 1) = Len(ps) + 1,
         name |-> name, arg |-> arg, end |-> end]

\* the hint that a sequence of tokens renders, NoHint when it renders none
HintOfPieces(ps) ==
    LET a == Shape(ps, {"7"})
        i == Shape(ps, {"7", "Alloc", "Input"})
    IN  IF a.ok /\ ps[a.name] = "Alloc" /\ Sevens(a.end - a.arg) <= UsizeMax
        THEN Alloc(Sevens(a.end - a.arg))
        ELSE IF i.ok /\ ps[i.name] = "Input" /\ ps[i.arg] # "7"
        THEN Input(Concat(SubSeq(ps, i.arg, i.end - 1)))
        ELSE NoHint

\* C15: parsing returns a hint or an error; a text that is not a complete
\* rendering of Input(...) or Alloc(...) with whitespace around it (text
\* after a valid hint, a negative or too large number, an unterminated hint,
\* another hint name) gives an error and no hint, and every error message
\* starts with "Error parsing hint".
C15_ParseAllOrNothing ==
    parser.done
        => /\ ParseErr \/ (parser.res.kind = "Ok" /\ parser.res.hint # NoHint
                             /\ parser.res.message = "")
           /\ (parser.case[1] \in {"Defect", "TwoNames"}) => ParseErr
           /\ (parser.case[1] = "Alloc" /\ parser.case[3] > UsizeMax)
                => ParseErr
           /\ (parser.case[1] = "Pieces")
                => IF HintOfPieces(parser.case[2]) = NoHint
                   THEN ParseErr
                   ELSE ParseOk(HintOfPieces(parser.case[2]))

C15_Witness ==
    /\ parser.done
    /\ parser.case = <<"Defect", "Alloc(34) extra">>
    /\ ParseErr

\* a text of tokens with text after a valid hint, refused
C15_WitnessPieces ==
    /\ parser.done
    /\ parser.case = <<"Pieces", <<"Alloc", "(", "7", ")", "7">> >>
    /\ ParseErr

\* a text of tokens that renders a hint
C15_WitnessAccepted ==
    /\ parser.done
    /\ parser.case = <<"Pieces", <<"Input", "(", "Alloc", "7", ")">> >>
    /\ ParseOk(Input("Alloc7"))

(***************************************************************************)
(* Properties of the decoder.                                              *)
(***************************************************************************)
RECURSIVE Plain(_)
\* the document holds numbers written with digits, booleans, objects and
\* arrays only
Plain(doc) ==
    CASE doc[1] = "Number" -> AllIn(doc[2], Digit)
      [] doc[1] = "Bool" -> TRUE
      [] doc[1] = "Object" -> \A i \in 1 .. Len(doc[2]) : Plain(doc[2][i][2])
      [] doc[1] = "Array" -> \A i \in 1 .. Len(doc[2]) : Plain(doc[2][i])
      [] OTHER -> FALSE

RECURSIVE ValueOfText(_)
\* the Value of a document: fields in the order of the keys in the text,
\* elements in the order of the array
ValueOfText(doc) ==
    CASE doc[1] = "Number" ->
            ValueFelt(CHOOSE n \in 0 .. 99 : ToDec(n) = doc[2])
      [] doc[1] = "Bool" -> ValueBool(doc[2])
      [] doc[1] = "Object" ->
            ValueRecord([i \in 1 .. Len(doc[2]) |->
                            <<doc[2][i][1], ValueOfText(doc[2][i][2])>>])
      [] doc[1] = "Array" ->
            ValueList([i \in 1 .. Len(doc[2]) |-> ValueOfText(doc[2][i])])

\* C16: decoding a JSON object maps, at every depth, a number to a Felt, a
\* boolean to a Bool, an object to a Record and an array to a List; the
\* fields of a Record are in the order of the keys in the text, alphabetical
\* or not, and the elements of a List in the order of the array.
C16_DecodePreservesOrder ==
    (decoder.done /\ decoder.doc[1] = "Object" /\ Plain(decoder.doc))
        => /\ decoder.res.kind = "Ok"
           /\ DOMAIN decoder.res.value
                = {decoder.doc[2][i][1] : i \in 1 .. Len(decoder.doc[2])}
           /\ \A i \in 1 .. Len(decoder.doc[2]) :
                decoder.res.value[decoder.doc[2][i][1]]
                    = ValueOfText(decoder.doc[2][i][2])

\* C16 in a build of serde_json with the feature preserve_order
C16_WithPreserveOrder == decoder.preserve_order => C16_DecodePreservesOrder

\* C16 with the keys of every object in alphabetical order in the text
RECURSIVE KeysSorted(_)
KeysSorted(doc) ==
    CASE doc[1] = "Object" ->
            /\ \A i \in 1 .. Len(doc[2]) - 1 :
                    StrLess(doc[2][i][1], doc[2][i + 1][1])
            /\ \A i \in 1 .. Len(doc[2]) : KeysSorted(doc[2][i][2])
      [] doc[1] = "Array" -> \A i \in 1 .. Len(doc[2]) : KeysSorted(doc[2][i])
      [] OTHER -> TRUE

C16_WithSortedKeys == KeysSorted(decoder.doc) => C16_DecodePreservesOrder

====
